---- MODULE Spec2Model ----
(***************************************************************************)
(* A model of the multi-root configuration loader                          *)
(* (multiroot/config/config.go) and of the remote signer                   *)
(* (signer/remote/remote.go) of cfssl.                                     *)
(*                                                                         *)
(* Strings are sequences of one-character strings, so that the regular     *)
(* expressions of config.go are computed character by character.           *)
(***************************************************************************)
EXTENDS Naturals, Integers, Sequences, FiniteSets, TLC

VARIABLES
    \* ParseToRawMap / Parse
    file,            \* the lines the scanner has returned so far
    cfg,             \* RawMap under construction
    currentSection,  \* ParseToRawMap's currentSection
    scanErr,         \* ParseToRawMap's err
    ppc,             \* position inside Parse
    rootList,        \* Parse's rootList
    parseResult,     \* what Parse returned
    \* LoadRoot
    lcfg,            \* LoadRoot's argument
    lpc,             \* position inside LoadRoot / parsePrivateKeySpec
    root,            \* LoadRoot's local Root under construction
    lresult,         \* what LoadRoot returned
    ops,             \* the files and backends touched so far, in order
    \* remote.Signer
    policy,          \* Signer.policy
    dbAccessor,      \* Signer.dbAccessor
    reqModifier,     \* Signer.reqModifier
    spc,             \* position of every invocation inside Sign / Info
    call,            \* the running invocation: its request and locals
    sresult,         \* what every invocation returned
    outbound,        \* the calls sent to the remote CA, in order
    certdb,          \* the records the certificate database holds, in order
    ncalls           \* invocations so far

vars == <<file, cfg, currentSection, scanErr, ppc, rootList, parseResult,
          lcfg, lpc, root, lresult, ops,
          policy, dbAccessor, reqModifier, spc, call, sresult, outbound, certdb,
          ncalls>>

signerVars == <<policy, dbAccessor, reqModifier, spc, call, sresult, outbound,
                certdb, ncalls>>

parseVars == <<file, cfg, currentSection, scanErr, ppc, rootList, parseResult>>
loadVars  == <<lcfg, lpc, root, lresult, ops>>

(***************************************************************************)
(* Bounds                                                                  *)
(***************************************************************************)
MaxLen == 5        \* longest line drawn character by character
MaxLines == 4      \* longest file given to ParseToRawMap alone
MaxRootLines == 5  \* longest file given to Parse
MaxCalls == 2      \* invocations of Sign and Info

(***************************************************************************)
(* Characters                                                              *)
(***************************************************************************)
\* A string is a sequence of bytes. A printable ASCII byte is written as
\* itself, the bytes 9, 10, 12 and 13 as "\t", "\n", "\f" and "\r", and any
\* other byte, and the grave accent 0x60, as "\\xhh"
Printable ==
    <<" ","!","\"","#","$","%","&","'","(",")","*","+",",","-",".","/",
      "0","1","2","3","4","5","6","7","8","9",":",";","<","=",">","?",
      "@","A","B","C","D","E","F","G","H","I","J","K","L","M","N","O",
      "P","Q","R","S","T","U","V","W","X","Y","Z","[","\\","]","^","_",
      "\\x60","a","b","c","d","e","f","g","h","i","j","k","l","m","n","o",
      "p","q","r","s","t","u","v","w","x","y","z","{","|","}","~">>

HexDigitSeq == <<"0","1","2","3","4","5","6","7","8","9","a","b","c","d","e","f">>

Byte(n) ==
    IF n \in 32..126 THEN Printable[n - 31]
    ELSE IF n = 9 THEN "\t"
    ELSE IF n = 10 THEN "\n"
    ELSE IF n = 12 THEN "\f"
    ELSE IF n = 13 THEN "\r"
    ELSE "\\x" \o HexDigitSeq[(n \div 16) + 1] \o HexDigitSeq[(n % 16) + 1]

LowerSeq ==
    <<"a","b","c","d","e","f","g","h","i","j","k","l","m","n","o","p","q","r",
      "s","t","u","v","w","x","y","z">>
UpperSeq ==
    <<"A","B","C","D","E","F","G","H","I","J","K","L","M","N","O","P","Q","R",
      "S","T","U","V","W","X","Y","Z">>

Letters == {LowerSeq[j] : j \in 1..26} \cup {UpperSeq[j] : j \in 1..26}
Digits  == {"0","1","2","3","4","5","6","7","8","9"}

\* regexp \s is [\t\n\f\r ]
SpaceChars == {" ", "\t", "\n", "\f", "\r"}

\* regexp \w is [0-9A-Za-z_]
WordChars == Letters \cup Digits \cup {"_"}


IsSpace(c) == c \in SpaceChars
IsWord(c)  == c \in WordChars

Min(S) == CHOOSE x \in S : \A y \in S : x <= y
Max(S) == CHOOSE x \in S : \A y \in S : x >= y

\* x := e, then F(x): e is evaluated once
With(F(_), e) == CHOOSE r \in {F(x) : x \in {e}} : TRUE

\* the first position >= i of s that holds no whitespace (Len(s)+1 if none):
\* where a greedy \s* started at i ends
SkipSpace(s, i) ==
    LET stop == {j \in i..Len(s) : ~IsSpace(s[j])}
    IN  IF stop = {} THEN Len(s) + 1 ELSE Min(stop)

\* where a greedy \w* started at i ends
SkipWord(s, i) ==
    LET stop == {j \in i..Len(s) : ~IsWord(s[j])}
    IN  IF stop = {} THEN Len(s) + 1 ELSE Min(stop)

\* the last position of s that holds no whitespace (0 if none)
LastNonSpace(s) ==
    LET keep == {j \in 1..Len(s) : ~IsSpace(s[j])}
    IN  IF keep = {} THEN 0 ELSE Max(keep)

NoMatch == [ok |-> FALSE, g1 |-> <<>>, g2 |-> <<>>]

(***************************************************************************)
(* The five regular expressions, each as MatchString plus its submatches   *)
(***************************************************************************)
\* commentLine = ^#.*$
commentLine(line) ==
    /\ Len(line) >= 1 /\ line[1] = "#"
    /\ \A j \in 1..Len(line) : line[j] # "\n"      \* . matches no newline

\* blankLine = ^\s*$
blankLine(line) == \A j \in 1..Len(line) : IsSpace(line[j])

\* configSection = ^\s*\[\s*(\w+)\s*\]\s*$
configSection(line) ==
    LET i1 == SkipSpace(line, 1)
        i2 == SkipSpace(line, i1 + 1)
        i3 == SkipWord(line, i2)
        i4 == SkipSpace(line, i3)
    IN  IF /\ i1 <= Len(line) /\ line[i1] = "["
           /\ i3 > i2
           /\ i4 <= Len(line) /\ line[i4] = "]"
           /\ SkipSpace(line, i4 + 1) = Len(line) + 1
        THEN [ok |-> TRUE, g1 |-> SubSeq(line, i2, i3 - 1), g2 |-> <<>>]
        ELSE NoMatch

\* configLine = ^\s*(\w+)\s*=\s*(.*)\s*$
configLine(line) ==
    LET i1 == SkipSpace(line, 1)
        i2 == SkipWord(line, i1)
        i3 == SkipSpace(line, i2)
        i4 == SkipSpace(line, i3 + 1)
        \* (.*) is greedy and stops at a newline; \s* takes what is left
        nls == {j \in i4..Len(line) : line[j] = "\n"}
        e   == IF nls = {} THEN Len(line) ELSE Min(nls) - 1
    IN  IF /\ i2 > i1
           /\ i3 <= Len(line) /\ line[i3] = "="
           /\ \A j \in (e + 1)..Len(line) : IsSpace(line[j])
        THEN [ok |-> TRUE, g1 |-> SubSeq(line, i1, i2 - 1),
              g2 |-> SubSeq(line, i4, e)]
        ELSE NoMatch

\* quotedConfigLine = ^\s*(\w+)\s*=\s*["'](.*)["']\s*$
quotedConfigLine(line) ==
    LET i1 == SkipSpace(line, 1)
        i2 == SkipWord(line, i1)
        i3 == SkipSpace(line, i2)
        i4 == SkipSpace(line, i3 + 1)
        e  == LastNonSpace(line)
    IN  IF /\ i2 > i1
           /\ i3 <= Len(line) /\ line[i3] = "="
           /\ i4 <= Len(line) /\ line[i4] \in {"\"", "'"}
           /\ e > i4 /\ line[e] \in {"\"", "'"}
           /\ \A j \in (i4 + 1)..(e - 1) : line[j] # "\n"
        THEN [ok |-> TRUE, g1 |-> SubSeq(line, i1, i2 - 1),
              g2 |-> SubSeq(line, i4 + 1, e - 1)]
        ELSE NoMatch

\* "default"
defaultSection == <<"d","e","f","a","u","l","t">>

(***************************************************************************)
(* RawMap                                                                  *)
(***************************************************************************)
\* make(RawMap, 0) and make(map[string]string, 0)
EmptyMap == [x \in {} |-> <<>>]

\* m[k] = v on a Go map
MapPut(m, k, v) == [x \in (DOMAIN m) \cup {k} |-> IF x = k THEN v ELSE m[x]]

\* m[k] read from a map[string]string: "" when the key is absent
MapGet(m, k) == IF k \in DOMAIN m THEN m[k] ELSE <<>>

SectionInConfig(c, section) == \E s \in DOMAIN c : section = s

\* C5, changed: a header always starts its section anew
ScanStepResetting(st, line) ==
    IF commentLine(line) THEN st
    ELSE IF blankLine(line) THEN st
    ELSE IF configSection(line).ok THEN
        [cfg |-> MapPut(st.cfg, configSection(line).g1, EmptyMap),
         currentSection |-> configSection(line).g1,
         err |-> st.err]
    ELSE IF configLine(line).ok THEN
        LET regex == IF quotedConfigLine(line).ok
                     THEN quotedConfigLine(line) ELSE configLine(line)
            cur == IF st.currentSection = <<>>
                   THEN defaultSection ELSE st.currentSection
            c1 == IF st.currentSection = <<>> /\ ~SectionInConfig(st.cfg, cur)
                  THEN MapPut(st.cfg, cur, EmptyMap) ELSE st.cfg
        IN  [cfg |-> MapPut(c1, cur, MapPut(c1[cur], regex.g1, regex.g2)),
             currentSection |-> cur,
             err |-> st.err]
    ELSE [st EXCEPT !.err = "invalid config file"]

\* The body of ParseToRawMap's loop for one scanned line, on the loop's
\* state st = [cfg, currentSection, err]
ScanStep(st, line) ==
    IF commentLine(line) THEN st
    ELSE IF blankLine(line) THEN st
    ELSE IF configSection(line).ok THEN
        LET section == configSection(line).g1
        IN  [cfg |-> IF ~SectionInConfig(st.cfg, section)
                     THEN MapPut(st.cfg, section, EmptyMap)
                     ELSE st.cfg,
             currentSection |-> section,
             err |-> st.err]
    ELSE IF configLine(line).ok THEN
        LET regex == IF quotedConfigLine(line).ok
                     THEN quotedConfigLine(line) ELSE configLine(line)
            cur == IF st.currentSection = <<>>
                   THEN defaultSection ELSE st.currentSection
            c1 == IF st.currentSection = <<>> /\ ~SectionInConfig(st.cfg, cur)
                  THEN MapPut(st.cfg, cur, EmptyMap) ELSE st.cfg
        IN  [cfg |-> MapPut(c1, cur, MapPut(c1[cur], regex.g1, regex.g2)),
             currentSection |-> cur,
             err |-> st.err]
    ELSE [st EXCEPT !.err = "invalid config file"]

(***************************************************************************)
(* Names of the configuration keys and of the key schemes                  *)
(***************************************************************************)
kPrivate     == <<"p","r","i","v","a","t","e">>
kCertificate == <<"c","e","r","t","i","f","i","c","a","t","e">>
kConfig      == <<"c","o","n","f","i","g">>
kNets        == <<"n","e","t","s">>
kDBConfig    == <<"d","b","c","o","n","f","i","g">>
kModule      == <<"m","o","d","u","l","e">>
kTokenLabel  == <<"t","o","k","e","n","_","l","a","b","e","l">>
kPin         == <<"p","i","n">>
kRoServer    == <<"r","o","_","s","e","r","v","e","r">>
kRoCA        == <<"r","o","_","c","a">>
kRoUser      == <<"r","o","_","u","s","e","r">>
kRoPass      == <<"r","o","_","p","a","s","s">>

schemeFile   == <<"f","i","l","e">>
schemeRofile == <<"r","o","f","i","l","e">>
schemePkcs11 == <<"p","k","c","s","1","1">>

(***************************************************************************)
(* The errors of config.go                                                 *)
(***************************************************************************)
ErrMissingPrivateKey      == "config: root is missing private key spec"
ErrMissingCertificatePath == "config: root is missing certificate path"
ErrMissingConfigPath      == "config: root is missing configuration file path"
ErrUnsupportedScheme      == "config: unsupported private key scheme"
ErrNoROServer == "config: no RedOctober server available"
ErrNoROUser   == "config: no RedOctober user available"
ErrNoROPass   == "config: no RedOctober passphrase available"
ErrNoModule     == "config: PKCS11 module path must be set (module)"
ErrNoTokenLabel == "config: PKCS11 token label must be set (token_label)"
ErrNoP11Cert    == "config: PKCS11 public key path must be set (certificate)"

(***************************************************************************)
(* url.Parse and filepath.Join                                             *)
(***************************************************************************)
IndexOf(s, c) ==
    LET at == {j \in 1..Len(s) : s[j] = c}
    IN  IF at = {} THEN 0 ELSE Min(at)

LastIndexOf(s, c) ==
    LET at == {j \in 1..Len(s) : s[j] = c}
    IN  IF at = {} THEN 0 ELSE Max(at)

HasPrefix(s, p) == Len(s) >= Len(p) /\ SubSeq(s, 1, Len(p)) = p

RECURSIVE Split(_, _)
\* strings.Split(s, sep) for a one-byte sep
Split(s, sep) ==
    LET i == IndexOf(s, sep)
    IN  IF i = 0 THEN <<s>>
        ELSE <<SubSeq(s, 1, i - 1)>> \o Split(SubSeq(s, i + 1, Len(s)), sep)

\* strings.ToLower on the bytes of a scheme
ToLower(s) ==
    [j \in 1..Len(s) |->
        IF \E n \in 1..26 : UpperSeq[n] = s[j]
        THEN LowerSeq[CHOOSE n \in 1..26 : UpperSeq[n] = s[j]]
        ELSE s[j]]

\* url.stringContainsCTLByte: a byte below ' ' or 0x7f
CTLBytes == {Byte(n) : n \in 0..31} \cup {Byte(127)}

\* the bytes from 0x80 on
HighBytes == {Byte(n) : n \in 128..255}

ishex(c) == \E n \in 1..16 : c = HexDigitSeq[n] \/ (n > 10 /\ c = UpperSeq[n - 10])
unhex(c) == (CHOOSE n \in 1..16 : c = HexDigitSeq[n] \/ (n > 10 /\ c = UpperSeq[n - 10])) - 1

\* url.shouldEscape(c, encodeHost)
shouldEscapeHost(c) ==
    c \notin Letters \cup Digits \cup
             {"!", "$", "&", "'", "(", ")", "*", "+", ",", ";", "=", ":", "[", "]",
              "<", ">", "\"", "-", "_", ".", "~"}

RECURSIVE Decoded(_)
\* url.unescape, its second pass: every %hh gives its byte
Decoded(s) ==
    IF s = <<>> THEN <<>>
    ELSE IF s[1] = "%"
    THEN <<Byte(16 * unhex(s[2]) + unhex(s[3]))>> \o Decoded(SubSeq(s, 4, Len(s)))
    ELSE <<s[1]>> \o Decoded(Tail(s))

\* url.unescape, its first pass: what it refuses at position j of s, "nil"
\* when nothing. The two bytes after a '%' it accepts are hexadecimal digits,
\* so every '%' of s starts an escape
EscapeError(s, mode, j) ==
    IF s[j] = "%" THEN
        IF j + 2 > Len(s) \/ ~ishex(s[j + 1]) \/ ~ishex(s[j + 2])
        THEN "invalid URL escape"
        ELSE IF /\ mode = "host" /\ unhex(s[j + 1]) < 8
                /\ SubSeq(s, j, j + 2) # <<"%", "2", "5">>
        THEN "invalid URL escape"
        ELSE IF /\ mode = "zone"
                /\ SubSeq(s, j, j + 2) # <<"%", "2", "5">>
                /\ 16 * unhex(s[j + 1]) + unhex(s[j + 2]) # 32
                /\ shouldEscapeHost(Byte(16 * unhex(s[j + 1]) + unhex(s[j + 2])))
        THEN "invalid URL escape"
        ELSE "nil"
    ELSE IF mode \in {"host", "zone"} /\ s[j] \notin HighBytes /\ shouldEscapeHost(s[j])
    THEN "invalid character in host name"
    ELSE "nil"

\* url.unescape(s, mode): [err, s]; mode is "host", "zone" or "path" (any
\* mode that only decodes)
unescape(str, mode) ==
    With(LAMBDA s :
            LET bad == {j \in 1..Len(s) : EscapeError(s, mode, j) # "nil"}
            IN  IF bad # {} THEN [err |-> EscapeError(s, mode, Min(bad)), s |-> <<>>]
                ELSE [err |-> "nil", s |-> Decoded(s)],
         str)

\* url.getScheme: [err, scheme, rest]
getScheme(raw) ==
    LET SchemeChars == Letters \cup Digits \cup {"+", "-", "."}
        bad == {j \in 1..Len(raw) : raw[j] \notin SchemeChars}
        i   == IF bad = {} THEN 0 ELSE Min(bad)
        none == [err |-> "nil", scheme |-> <<>>, rest |-> raw]
    IN  IF raw # <<>> /\ raw[1] \in Digits \cup {"+", "-", "."} THEN none
        ELSE IF i = 0 THEN none
        ELSE IF raw[i] # ":" THEN none
        ELSE IF i = 1
             THEN [err |-> "missing protocol scheme", scheme |-> <<>>, rest |-> <<>>]
        ELSE [err |-> "nil", scheme |-> SubSeq(raw, 1, i - 1),
              rest |-> SubSeq(raw, i + 1, Len(raw))]

\* url.validOptionalPort on the text from the host's last ':' on
validOptionalPort(port) ==
    \/ port = <<>>
    \/ port[1] = ":" /\ \A j \in 2..Len(port) : port[j] \in Digits

\* url.validUserinfo
validUserinfo(u) ==
    \A j \in 1..Len(u) :
        u[j] \in Letters \cup Digits \cup
                 {"-", ".", "_", ":", "~", "!", "$", "&", "'", "(", ")", "*", "+",
                  ",", ";", "=", "%", "@"}

\* url.parseHost, the IP-literal case with a zone: [err, s]
parseHostZone(host, rb, zone) ==
    With(LAMBDA h1 :
            IF h1.err # "nil" THEN h1
            ELSE With(LAMBDA h2 :
                    IF h2.err # "nil" THEN h2
                    ELSE With(LAMBDA h3 :
                            IF h3.err # "nil" THEN h3
                            ELSE [err |-> "nil", s |-> h1.s \o h2.s \o h3.s],
                         unescape(SubSeq(host, rb, Len(host)), "host")),
                 unescape(SubSeq(host, zone, rb - 1), "zone")),
         unescape(SubSeq(host, 1, zone - 1), "host"))

\* url.parseHost: [err, s]
parseHost(h) ==
    With(LAMBDA host :
            LET rb   == LastIndexOf(host, "]")
                lc   == LastIndexOf(host, ":")
                pct  == {j \in 1..(rb - 3) : SubSeq(host, j, j + 2) = <<"%", "2", "5">>}
            IN  IF HasPrefix(host, <<"[">>)
                THEN IF rb = 0 THEN [err |-> "missing ']' in host", s |-> <<>>]
                     ELSE IF ~validOptionalPort(SubSeq(host, rb + 1, Len(host)))
                     THEN [err |-> "invalid port after host", s |-> <<>>]
                     ELSE IF pct = {} THEN unescape(host, "host")
                     ELSE parseHostZone(host, rb, Min(pct))
                ELSE IF lc # 0 /\ ~validOptionalPort(SubSeq(host, lc, Len(host)))
                THEN [err |-> "invalid port after host", s |-> <<>>]
                ELSE unescape(host, "host"),
         h)

\* url.parseAuthority: [err, s], s the host
parseAuthority(a) ==
    With(LAMBDA authority :
            LET at   == LastIndexOf(authority, "@")
                userinfo == SubSeq(authority, 1, at - 1)
                colon == IndexOf(userinfo, ":")
                user == IF colon = 0 THEN userinfo ELSE SubSeq(userinfo, 1, colon - 1)
                pass == IF colon = 0 THEN <<>>
                        ELSE SubSeq(userinfo, colon + 1, Len(userinfo))
            IN  With(LAMBDA host :
                        IF host.err # "nil" \/ at = 0 THEN host
                        ELSE IF ~validUserinfo(userinfo)
                        THEN [err |-> "net/url: invalid userinfo", s |-> <<>>]
                        ELSE IF unescape(user, "path").err # "nil"
                        THEN [err |-> "invalid URL escape", s |-> <<>>]
                        ELSE IF unescape(pass, "path").err # "nil"
                        THEN [err |-> "invalid URL escape", s |-> <<>>]
                        ELSE host,
                     parseHost(SubSeq(authority, at + 1, Len(authority)))),
         a)

\* url.parse, from the authority on: sch the scheme, rest what follows the
\* scheme, without the query
parseRest(sch, rest) ==
    LET url0  == [err |-> "nil", Scheme |-> sch, Host |-> <<>>, Path |-> <<>>]
        seg   == IF IndexOf(rest, "/") = 0 THEN rest
                 ELSE SubSeq(rest, 1, IndexOf(rest, "/") - 1)
        a0    == SubSeq(rest, 3, Len(rest))
        cut   == IndexOf(a0, "/")
        hasAuth == /\ HasPrefix(rest, <<"/","/">>)
                   /\ (sch # <<>> \/ ~HasPrefix(rest, <<"/","/","/">>))
    IN  IF ~HasPrefix(rest, <<"/">>) /\ sch # <<>>
        THEN url0   \* a rootless path is opaque
        ELSE IF ~HasPrefix(rest, <<"/">>) /\ IndexOf(seg, ":") # 0
        THEN [url0 EXCEPT !.err = "first path segment in URL cannot contain colon"]
        ELSE With(LAMBDA auth :
                IF auth.err # "nil" THEN [url0 EXCEPT !.err = auth.err]
                ELSE With(LAMBDA path :
                        IF path.err # "nil" THEN [url0 EXCEPT !.err = path.err]
                        ELSE [url0 EXCEPT !.Host = auth.s, !.Path = path.s],
                     unescape(IF ~hasAuth THEN rest
                              ELSE IF cut = 0 THEN <<>> ELSE SubSeq(a0, cut, Len(a0)),
                              "path")),
             IF hasAuth
             THEN parseAuthority(IF cut = 0 THEN a0 ELSE SubSeq(a0, 1, cut - 1))
             ELSE [err |-> "nil", s |-> <<>>])

\* url.parse(rawURL, false), rawURL without its fragment: [err, Scheme, Host, Path]
urlParseNoFrag(raw) ==
    LET none == [err |-> "nil", Scheme |-> <<>>, Host |-> <<>>, Path |-> <<>>]
    IN  IF \E j \in 1..Len(raw) : raw[j] \in CTLBytes
        THEN [none EXCEPT !.err = "net/url: invalid control character in URL"]
        ELSE IF raw = <<"*">> THEN [none EXCEPT !.Path = raw]
        ELSE With(LAMBDA gs :
                IF gs.err # "nil" THEN [none EXCEPT !.err = gs.err]
                ELSE With(LAMBDA sch :
                        With(LAMBDA rest : parseRest(sch, rest),
                             IF IndexOf(gs.rest, "?") = 0 THEN gs.rest
                             ELSE SubSeq(gs.rest, 1, IndexOf(gs.rest, "?") - 1)),
                     ToLower(gs.scheme)),
             getScheme(raw))

\* url.Parse: the fragment is cut off and unescaped on its own
urlParse(rawURL) ==
    With(LAMBDA raw :
            LET h    == IndexOf(raw, "#")
                frag == IF h = 0 THEN <<>> ELSE SubSeq(raw, h + 1, Len(raw))
                none == [err |-> "nil", Scheme |-> <<>>, Host |-> <<>>, Path |-> <<>>]
            IN  With(LAMBDA url :
                        IF url.err # "nil" THEN [none EXCEPT !.err = url.err]
                        ELSE IF unescape(frag, "path").err # "nil"
                        THEN [none EXCEPT !.err = "invalid URL escape"]
                        ELSE url,
                     With(LAMBDA u : urlParseNoFrag(u),
                          IF h = 0 THEN raw ELSE SubSeq(raw, 1, h - 1))),
         rawURL)

RECURSIVE CleanParts(_, _, _)
\* filepath.Clean, one path element after the other: out holds the elements kept
CleanParts(parts, out, rooted) ==
    IF parts = <<>> THEN out
    ELSE IF Head(parts) = <<>> \/ Head(parts) = <<".">>
    THEN CleanParts(Tail(parts), out, rooted)
    ELSE IF Head(parts) = <<".", ".">>
    THEN IF out # <<>> /\ out[Len(out)] # <<".", ".">>
         THEN CleanParts(Tail(parts), SubSeq(out, 1, Len(out) - 1), rooted)
         ELSE IF rooted THEN CleanParts(Tail(parts), out, rooted)
         ELSE CleanParts(Tail(parts), Append(out, Head(parts)), rooted)
    ELSE CleanParts(Tail(parts), Append(out, Head(parts)), rooted)

RECURSIVE JoinParts(_)
\* strings.Join(parts, "/")
JoinParts(parts) ==
    IF parts = <<>> THEN <<>>
    ELSE IF Len(parts) = 1 THEN parts[1]
    ELSE parts[1] \o <<"/">> \o JoinParts(Tail(parts))

\* filepath.Clean
Clean(p) ==
    With(LAMBDA path :
            With(LAMBDA parts :
                    With(LAMBDA out :
                            IF HasPrefix(path, <<"/">>) THEN <<"/">> \o out
                            ELSE IF out = <<>> THEN <<".">>
                            ELSE out,
                         JoinParts(CleanParts(parts, <<>>, HasPrefix(path, <<"/">>)))),
                 Split(path, "/")),
         p)

\* filepath.Join(host, path): the empty elements in front are dropped, the
\* rest joined with '/' and cleaned
pathJoin(host, path) ==
    IF host = <<>> /\ path = <<>> THEN <<>>
    ELSE IF host = <<>> THEN Clean(path)
    ELSE Clean(host \o <<"/">> \o path)

(***************************************************************************)
(* The world LoadRoot runs in: the files on disk and the backends          *)
(***************************************************************************)
\* The working directory holds eight files and no directory. What the file a
\* path leads to holds; a path that leads to none of them does not exist.
\* The path is resolved as the operating system does: "./" and repeated '/'
\* in front of the name change nothing
FileKind(path) ==
    LET parts == Split(path, "/")
        name  == IF \A j \in 1..(Len(parts) - 1) : parts[j] = <<".">> \/ (j > 1 /\ parts[j] = <<>>)
                 THEN parts[Len(parts)] ELSE <<>>
    IN  CASE name = <<"k">> -> "keyPEM"      \* a PEM private key
          [] name = <<"r">> -> "keyDER"      \* a DER private key
          [] name = <<"e">> -> "encKey"      \* a RedOctober-encrypted private key
          [] name = <<"g">> -> "certPEM"     \* one PEM certificate
          [] name = <<"d">> -> "pemBadDER"   \* a PEM block that holds no certificate
          [] name = <<"n">> -> "garbage"     \* not PEM at all
          [] name = <<"p">> -> "policy"      \* a valid signing policy
          [] name = <<"q">> -> "dbconf"      \* a valid database configuration
          [] OTHER -> "missing"

\* os.ReadFile / ioutil.ReadFile
ReadFile(path) ==
    IF FileKind(path) = "missing"
    THEN [err |-> "open: no such file or directory", data |-> "nil"]
    ELSE [err |-> "nil", data |-> FileKind(path)]

\* helpers.ParsePrivateKeyPEM, then derhelpers.ParsePrivateKeyDER on its failure
ParsePrivateKey(data) ==
    IF data = "keyPEM" THEN [err |-> "nil", priv |-> "key"]
    ELSE IF data = "keyDER" THEN [err |-> "nil", priv |-> "key"]
    ELSE [err |-> "failed to parse DER private key", priv |-> "nil"]

\* pem.Decode: whether a block is found
pemDecode(data) == data \in {"keyPEM", "certPEM", "pemBadDER"}

\* x509.ParseCertificate on a decoded block
x509ParseCertificate(data) ==
    IF data = "certPEM" THEN [err |-> "nil", cert |-> "cert"]
    ELSE [err |-> "x509: malformed certificate", cert |-> "nil"]

\* helpers.ParseCertificatePEM
ParseCertificatePEM(data) ==
    IF data = "certPEM" THEN [err |-> "nil", cert |-> "cert"]
    ELSE [err |-> "failed to parse certificate", cert |-> "nil"]

\* client.NewRemoteServer(roServer, roCAPath): fails on an unreadable CA file
NewRemoteServer(server, caPath) ==
    IF caPath # <<>> /\ FileKind(caPath) # "certPEM"
    THEN "failed to read CA file" ELSE "nil"

\* roClient.DecryptIntoData: the server <<"s">> answers, with the plaintext key
DecryptIntoData(server, data) ==
    IF server = <<"s">> /\ data = "encKey"
    THEN [err |-> "nil", data |-> "keyPEM"]
    ELSE [err |-> "decryption failed", data |-> "nil"]

\* pkcs11key.New: the module <<"l">> loads and holds the token
pkcs11keyNew(module, tokenLabel) ==
    IF module = <<"l">> THEN "nil" ELSE "pkcs11: module or token not found"

\* config.LoadFile
LoadFile(path) ==
    IF FileKind(path) = "policy" THEN "nil" ELSE "could not load configuration file"

\* dbconf.DBFromConfig
DBFromConfig(path) ==
    IF FileKind(path) = "dbconf" THEN "nil" ELSE "could not load db configuration"

(***************************************************************************)
(* LoadRoot and parsePrivateKeySpec, one step per file or backend touched. *)
(* A call's state is s = [pc, root, result, ops]; result.kind is "none"    *)
(* while the call runs, "return" once it returned (root, err) and "panic"  *)
(* when it ended in a run-time panic.                                      *)
(***************************************************************************)
\* a nil whitelist.NetACL
NilACL == [nil |-> TRUE, nets |-> <<>>]

\* var root Root: the zero Root
ZeroRoot == [nil |-> FALSE, PrivateKey |-> "nil", Certificate |-> "nil",
             Config |-> "nil", ACL |-> NilACL, DB |-> "nil"]

\* a nil *Root
NilRoot == [ZeroRoot EXCEPT !.nil = TRUE]

NoResult == [kind |-> "none", root |-> NilRoot, err |-> "nil"]

LoadStart == [pc |-> "required", root |-> ZeroRoot, result |-> NoResult, ops |-> <<>>]

\* return nil, err
RetErr(s, e) ==
    [s EXCEPT !.pc = "done", !.result = [kind |-> "return", root |-> NilRoot, err |-> e]]

\* a nil pointer dereference
Panic(s) ==
    [s EXCEPT !.pc = "done", !.result = [kind |-> "panic", root |-> NilRoot, err |-> "nil"]]

Touch(s, op) == [s EXCEPT !.ops = Append(@, op)]

\* LoadRoot, lines 116-129: the three required keys
StepRequired(c, s) ==
    IF kPrivate \notin DOMAIN c THEN RetErr(s, ErrMissingPrivateKey)
    ELSE IF kCertificate \notin DOMAIN c THEN RetErr(s, ErrMissingCertificatePath)
    ELSE IF kConfig \notin DOMAIN c THEN RetErr(s, ErrMissingConfigPath)
    ELSE [s EXCEPT !.pc = "spec"]

\* the pkcs11 case up to the certificate path, lines 261-279
StepPkcs11Params(c, s) ==
    IF MapGet(c, kModule) = <<>> THEN RetErr(s, ErrNoModule)
    ELSE IF MapGet(c, kTokenLabel) = <<>> THEN RetErr(s, ErrNoTokenLabel)
    \* an empty pin is logged with log.Infof, nothing else
    ELSE IF MapGet(c, kCertificate) = <<>> THEN RetErr(s, ErrNoP11Cert)
    ELSE [s EXCEPT !.pc = "p11.read"]

\* parsePrivateKeySpec, lines 173-179 and the switch
StepSpec(c, s) ==
    LET specURL == urlParse(c[kPrivate])
    IN  IF specURL.err # "nil" THEN RetErr(s, specURL.err)
        ELSE IF specURL.Scheme = schemeFile THEN [s EXCEPT !.pc = "file.read"]
        ELSE IF specURL.Scheme = schemeRofile THEN [s EXCEPT !.pc = "ro.read"]
        ELSE IF specURL.Scheme = schemePkcs11 THEN StepPkcs11Params(c, s)
        ELSE RetErr(s, ErrUnsupportedScheme)

KeyPath(c) == With(LAMBDA specURL : pathJoin(specURL.Host, specURL.Path), urlParse(c[kPrivate]))

\* case "file", lines 185-203
StepFileRead(c, s) ==
    LET in == ReadFile(KeyPath(c))
        s1 == Touch(s, <<"ReadFile", KeyPath(c)>>)
        k  == ParsePrivateKey(in.data)
    IN  IF in.err # "nil" THEN RetErr(s1, in.err)
        ELSE IF k.err # "nil" THEN RetErr(s1, k.err)
        ELSE [s1 EXCEPT !.root.PrivateKey = "file key", !.pc = "cert.read"]

\* case "rofile", lines 205-229
StepRoRead(c, s) ==
    LET in == ReadFile(KeyPath(c))
        s1 == Touch(s, <<"ReadFile", KeyPath(c)>>)
    IN  IF in.err # "nil" THEN RetErr(s1, in.err)
        ELSE IF MapGet(c, kRoServer) = <<>> THEN RetErr(s1, ErrNoROServer)
        ELSE IF MapGet(c, kRoUser) = <<>> THEN RetErr(s1, ErrNoROUser)
        ELSE IF MapGet(c, kRoPass) = <<>> THEN RetErr(s1, ErrNoROPass)
        ELSE [s1 EXCEPT !.pc = "ro.connect"]

\* lines 232-235
StepRoConnect(c, s) ==
    LET e  == NewRemoteServer(MapGet(c, kRoServer), MapGet(c, kRoCA))
        s1 == Touch(s, <<"NewRemoteServer", MapGet(c, kRoServer)>>)
    IN  IF e # "nil" THEN RetErr(s1, e) ELSE [s1 EXCEPT !.pc = "ro.decrypt"]

\* lines 237-259
StepRoDecrypt(c, s) ==
    LET in == DecryptIntoData(MapGet(c, kRoServer), ReadFile(KeyPath(c)).data)
        s1 == Touch(s, <<"DecryptIntoData", MapGet(c, kRoServer)>>)
        k  == ParsePrivateKey(in.data)
    IN  IF in.err # "nil" THEN RetErr(s1, in.err)
        ELSE IF k.err # "nil" THEN RetErr(s1, k.err)
        ELSE [s1 EXCEPT !.root.PrivateKey = "RedOctober key", !.pc = "cert.read"]

\* case "pkcs11", lines 282-290: b.Bytes is read whether or not pem.Decode
\* found a block
StepP11Read(c, s) ==
    LET p  == ReadFile(c[kCertificate])
        s1 == Touch(s, <<"ReadFile", c[kCertificate]>>)
    IN  IF p.err # "nil" THEN RetErr(s1, p.err)
        ELSE IF ~pemDecode(p.data) THEN Panic(s1)
        ELSE IF x509ParseCertificate(p.data).err # "nil"
             THEN RetErr(s1, x509ParseCertificate(p.data).err)
        ELSE [s1 EXCEPT !.pc = "p11.new"]

\* lines 293-299
StepP11New(c, s) ==
    LET e  == pkcs11keyNew(c[kModule], c[kTokenLabel])
        s1 == Touch(s, <<"pkcs11key.New", c[kModule], c[kTokenLabel], MapGet(c, kPin)>>)
    IN  IF e # "nil" THEN RetErr(s1, e)
        ELSE [s1 EXCEPT !.root.PrivateKey = "pkcs11 session", !.pc = "cert.read"]

\* LoadRoot, lines 136-144
StepCertRead(c, s) ==
    LET in == ReadFile(c[kCertificate])
        s1 == Touch(s, <<"ReadFile", c[kCertificate]>>)
        pc == ParseCertificatePEM(in.data)
    IN  IF in.err # "nil" THEN RetErr(s1, in.err)
        ELSE IF pc.err # "nil" THEN RetErr(s1, pc.err)
        ELSE [s1 EXCEPT !.root.Certificate = pc.cert, !.pc = "policy"]

\* lines 146-150
StepPolicy(c, s) ==
    LET e  == LoadFile(c[kConfig])
        s1 == Touch(s, <<"LoadFile", c[kConfig]>>)
    IN  IF e # "nil" THEN RetErr(s1, e)
        ELSE [s1 EXCEPT !.root.Config = "signing", !.pc = "acl"]

(***************************************************************************)
(* parseACL: strings.Split, strings.TrimSpace and net.ParseCIDR            *)
(***************************************************************************)
\* unicode.IsSpace: the one-byte white space, and the UTF-8 encodings of
\* U+0085, U+00A0, U+1680, U+2000 to U+200A, U+2028, U+2029, U+202F, U+205F
\* and U+3000
UnicodeSpaces ==
    {<<Byte(n)>> : n \in {9, 10, 11, 12, 13, 32}}
    \cup {<<Byte(194), Byte(133)>>, <<Byte(194), Byte(160)>>}
    \cup {<<Byte(225), Byte(154), Byte(128)>>}
    \cup {<<Byte(226), Byte(128), Byte(n)>> : n \in (128..138) \cup {168, 169, 175}}
    \cup {<<Byte(226), Byte(129), Byte(159)>>, <<Byte(227), Byte(128), Byte(128)>>}

RECURSIVE TrimLeft(_)
TrimLeft(s) ==
    LET n == {k \in 1..Min({3, Len(s)}) : SubSeq(s, 1, k) \in UnicodeSpaces}
    IN  IF n = {} THEN s ELSE TrimLeft(SubSeq(s, Min(n) + 1, Len(s)))

RECURSIVE TrimRight(_)
TrimRight(s) ==
    LET n == {k \in 1..Min({3, Len(s)}) :
                 SubSeq(s, Len(s) - k + 1, Len(s)) \in UnicodeSpaces}
    IN  IF n = {} THEN s ELSE TrimRight(SubSeq(s, 1, Len(s) - Min(n)))

\* strings.TrimSpace
TrimSpace(s) == TrimRight(TrimLeft(s))

DigitVal(ch) == (CHOOSE n \in 1..10 : HexDigitSeq[n] = ch) - 1

RECURSIVE Dtoi(_)
\* the value of a run of decimal digits
Dtoi(ds) ==
    IF ds = <<>> THEN 0
    ELSE 10 * Dtoi(SubSeq(ds, 1, Len(ds) - 1)) + DigitVal(ds[Len(ds)])

AllDigits(ds) == ds # <<>> /\ \A j \in 1..Len(ds) : ds[j] \in Digits

\* one field of a dotted quad: digits, no leading zero, at most 255
Octet(ds) ==
    /\ AllDigits(ds) /\ Len(ds) <= 3
    /\ (Len(ds) > 1 => ds[1] # "0")
    /\ Dtoi(ds) <= 255

\* netip.parseIPv4Fields accepts the text
IPv4(a) == Len(Split(a, ".")) = 4 /\ \A j \in 1..4 : Octet(Split(a, ".")[j])

\* netip.parseIPv6, after its loop: all of the text is used, and the address
\* is full exactly when it holds no ::
V6End(s, i, ellipsis) == s = <<>> /\ (IF i < 16 THEN ellipsis ELSE ~ellipsis)

RECURSIVE V6Groups(_, _, _)
\* netip.parseIPv6, one turn of its loop: a group of one to four hexadecimal
\* digits with i bytes of the address filled, then ':' or '::' and more, or
\* a dotted quad in the place of the last two groups
V6Groups(s, i, ellipsis) ==
    LET stop == {j \in 1..Len(s) : ~ishex(s[j])}
        off == IF stop = {} THEN Len(s) ELSE Min(stop) - 1
        s1  == SubSeq(s, off + 1, Len(s))
        s2  == Tail(s1)
        s3  == Tail(s2)
    IN  IF off = 0 \/ off > 4 THEN FALSE
        ELSE IF s1 # <<>> /\ s1[1] = "."
        THEN (ellipsis \/ i = 12) /\ i + 4 <= 16 /\ IPv4(s) /\ V6End(<<>>, i + 4, ellipsis)
        ELSE IF s1 = <<>> THEN V6End(s1, i + 2, ellipsis)
        ELSE IF s1[1] # ":" \/ Len(s1) = 1 THEN FALSE
        ELSE IF s2[1] = ":"
        THEN IF ellipsis THEN FALSE
             ELSE IF s3 = <<>> \/ i + 2 >= 16 THEN V6End(s3, i + 2, TRUE)
             ELSE V6Groups(s3, i + 2, TRUE)
        ELSE IF i + 2 >= 16 THEN V6End(s2, i + 2, ellipsis)
        ELSE V6Groups(s2, i + 2, ellipsis)

\* netip.parseIPv6 accepts the text (no zone)
IPv6(a) ==
    IF HasPrefix(a, <<":", ":">>)
    THEN Len(a) = 2 \/ V6Groups(SubSeq(a, 3, Len(a)), 0, TRUE)
    ELSE V6Groups(a, 0, FALSE)

\* netip.ParseAddr: the bits of the address, 0 when the text is none. A zone
\* is refused by net.ParseCIDR
AddrBits(a) ==
    LET marks == {j \in 1..Len(a) : a[j] \in {".", ":", "%"}}
    IN  IF marks = {} \/ IndexOf(a, "%") # 0 THEN 0
        ELSE IF a[Min(marks)] = "." THEN (IF IPv4(a) THEN 32 ELSE 0)
        ELSE IF IPv6(a) THEN 128 ELSE 0

\* net.ParseCIDR accepts the text
ParseCIDR(e) ==
    LET i    == IndexOf(e, "/")
        addr == SubSeq(e, 1, i - 1)
        mask == SubSeq(e, i + 1, Len(e))
    IN  /\ i # 0
        /\ AddrBits(addr) # 0
        /\ AllDigits(mask) /\ Dtoi(mask) <= AddrBits(addr)

\* parseACL, lines 305-319: the whitelist, or the first entry's error
parseACL(nets) ==
    LET netList == Split(nets, ",")
        bad == {j \in 1..Len(netList) : ~ParseCIDR(TrimSpace(netList[j]))}
    IN  IF bad = {}
        THEN [err |-> "nil", wl |-> [j \in 1..Len(netList) |-> TrimSpace(netList[j])]]
        ELSE [err |-> "invalid CIDR address", wl |-> <<>>]

\* LoadRoot, lines 152-158
StepACL(c, s) ==
    LET nets == MapGet(c, kNets)
        acl  == parseACL(nets)
    IN  IF nets = <<>> THEN [s EXCEPT !.pc = "db"]
        ELSE IF acl.err # "nil" THEN RetErr(Touch(s, <<"parseACL", nets>>), acl.err)
        ELSE [Touch(s, <<"parseACL", nets>>) EXCEPT !.root.ACL = [nil |-> FALSE, nets |-> acl.wl], !.pc = "db"]

\* lines 160-169
StepDB(c, s) ==
    LET dbConfig == MapGet(c, kDBConfig)
        s1  == Touch(s, <<"DBFromConfig", dbConfig>>)
        ret(t) == [t EXCEPT !.pc = "done",
                     !.result = [kind |-> "return", root |-> t.root, err |-> "nil"]]
    IN  IF dbConfig = <<>> THEN ret(s)
        ELSE IF DBFromConfig(dbConfig) # "nil" THEN RetErr(s1, DBFromConfig(dbConfig))
        ELSE ret([s1 EXCEPT !.root.DB = "db"])

\* the step LoadRoot(c) takes from s
LoadStep(c, s) ==
    CASE s.pc = "required"   -> StepRequired(c, s)
      [] s.pc = "spec"       -> StepSpec(c, s)
      [] s.pc = "file.read"  -> StepFileRead(c, s)
      [] s.pc = "ro.read"    -> StepRoRead(c, s)
      [] s.pc = "ro.connect" -> StepRoConnect(c, s)
      [] s.pc = "ro.decrypt" -> StepRoDecrypt(c, s)
      [] s.pc = "p11.read"   -> StepP11Read(c, s)
      [] s.pc = "p11.new"    -> StepP11New(c, s)
      [] s.pc = "cert.read"  -> StepCertRead(c, s)
      [] s.pc = "policy"     -> StepPolicy(c, s)
      [] s.pc = "acl"        -> StepACL(c, s)
      [] s.pc = "db"         -> StepDB(c, s)

RECURSIVE LoadRun(_, _)
\* the steps of LoadRoot(c) from s to its end
LoadRun(c, s) ==
    IF s.pc = "done" THEN s
    ELSE CHOOSE r \in {LoadRun(c, t) : t \in {LoadStep(c, s)}} : TRUE

\* LoadRoot(cfg) as one call: its result and what it touched
LoadRoot(c) == LoadRun(c, LoadStart)

(***************************************************************************)
(* ParseToRawMap and Parse as actions                                      *)
(***************************************************************************)
\* a config.SigningProfile: the remote's address and the auth provider
PlainProfile == [nil |-> FALSE, RemoteServer |-> "ca:8888", RemoteProvider |-> "nil"]
AuthProfile  == [nil |-> FALSE, RemoteServer |-> "ca:8888", RemoteProvider |-> "provider"]
BadProfile   == [nil |-> FALSE, RemoteServer |-> "", RemoteProvider |-> "nil"]
\* a nil *config.SigningProfile
NilProfile   == [nil |-> TRUE, RemoteServer |-> "", RemoteProvider |-> "nil"]

\* a nil *config.Signing
NilPolicy == [nil |-> TRUE, Default |-> NilProfile, Profiles |-> EmptyMap]

\* no invocation is running, none has returned
NoCall == [op |-> "none", req |-> [Profile |-> "", Label |-> "", marshalable |-> TRUE],
           target |-> "", p |-> NilProfile, cert |-> "nil", sent |-> 0,
           resp |-> [err |-> "nil", value |-> "nil"],
           dba |-> "unread", err |-> "nil",
           inserts |-> 0, inserted |-> <<>>]
NoSignResult == [kind |-> "none", value |-> "nil", err |-> "nil"]

\* a nil RootList
NilList == [nil |-> TRUE, roots |-> EmptyMap]

NoParseResult == [kind |-> "none", list |-> NilList, err |-> "nil"]

\* before Parse(filename) is called; no LoadRoot call of its own is running
InitConfig ==
    /\ file = <<>>
    /\ cfg = EmptyMap
    /\ currentSection = <<>>
    /\ scanErr = "nil"
    /\ ppc = "open"
    /\ rootList = EmptyMap
    /\ parseResult = NoParseResult
    /\ lcfg = EmptyMap
    /\ lpc = "idle"
    /\ root = NilRoot
    /\ lresult = NoResult
    /\ ops = <<>>
    /\ policy = NilPolicy
    /\ dbAccessor = "nil"
    /\ reqModifier = "nil"
    /\ spc = [i \in 1..MaxCalls |-> "idle"]
    /\ call = [i \in 1..MaxCalls |-> NoCall]
    /\ sresult = [i \in 1..MaxCalls |-> NoSignResult]
    /\ outbound = <<>>
    /\ certdb = <<>>
    /\ ncalls = 0

\* os.Open succeeds
Open ==
    /\ ppc = "open"
    /\ ppc' = "scan"
    /\ UNCHANGED <<file, cfg, currentSection, scanErr, rootList, parseResult>>
    /\ UNCHANGED loadVars
    /\ UNCHANGED signerVars

\* os.Open fails: ParseToRawMap returns the error, and Parse returns it
OpenFail ==
    /\ ppc = "open"
    /\ scanErr' = "open: no such file or directory"
    /\ ppc' = "done"
    /\ parseResult' = [kind |-> "return", list |-> NilList,
                       err |-> "open: no such file or directory"]
    /\ UNCHANGED <<file, cfg, currentSection, rootList>>
    /\ UNCHANGED loadVars
    /\ UNCHANGED signerVars

\* scanner.Scan returns line, and the loop body runs on it
Scan(line) ==
    LET st == ScanStep([cfg |-> cfg, currentSection |-> currentSection,
                        err |-> scanErr], line)
    IN  /\ ppc = "scan"
        /\ file' = Append(file, line)
        /\ cfg' = st.cfg
        /\ currentSection' = st.currentSection
        /\ scanErr' = st.err
        /\ ppc' = IF st.err # "nil" THEN "scanned" ELSE "scan"   \* break
        /\ UNCHANGED <<rootList, parseResult>>
        /\ UNCHANGED loadVars
    /\ UNCHANGED signerVars

\* scanner.Scan returns false at the end of the file
ScanEOF ==
    /\ ppc = "scan"
    /\ ppc' = "scanned"
    /\ UNCHANGED <<file, cfg, currentSection, scanErr, rootList, parseResult>>
    /\ UNCHANGED loadVars
    /\ UNCHANGED signerVars

\* Parse, lines 347-352
ParseCheck ==
    /\ ppc = "scanned"
    /\ IF scanErr # "nil"
       THEN /\ ppc' = "done"
            /\ parseResult' = [kind |-> "return", list |-> NilList, err |-> scanErr]
       ELSE /\ ppc' = "load"
            /\ UNCHANGED parseResult
    /\ UNCHANGED <<file, cfg, currentSection, scanErr, rootList>>
    /\ UNCHANGED loadVars
    /\ UNCHANGED signerVars

\* Parse, lines 353-360: one turn of the loop over cfgMap, whose order Go
\* leaves open
ParseLoad ==
    /\ ppc = "load"
    /\ \E label \in (DOMAIN cfg) \ (DOMAIN rootList) :
        \E r \in {LoadRoot(cfg[label]).result} :
              IF r.kind = "panic"
              THEN /\ ppc' = "done"
                   /\ parseResult' = [kind |-> "panic", list |-> NilList, err |-> "nil"]
                   /\ UNCHANGED rootList
              ELSE IF r.err # "nil"
              THEN /\ ppc' = "done"
                   /\ parseResult' = [kind |-> "return", list |-> NilList, err |-> r.err]
                   /\ UNCHANGED rootList
              ELSE /\ rootList' = MapPut(rootList, label, r.root)
                   /\ UNCHANGED <<ppc, parseResult>>
    /\ UNCHANGED <<file, cfg, currentSection, scanErr>>
    /\ UNCHANGED loadVars
    /\ UNCHANGED signerVars

\* Parse, line 362
ParseReturn ==
    /\ ppc = "load"
    /\ DOMAIN cfg = DOMAIN rootList
    /\ ppc' = "done"
    /\ parseResult' = [kind |-> "return", list |-> [nil |-> FALSE, roots |-> rootList],
                       err |-> "nil"]
    /\ UNCHANGED <<file, cfg, currentSection, scanErr, rootList>>
    /\ UNCHANGED loadVars
    /\ UNCHANGED signerVars

(***************************************************************************)
(* LoadRoot as actions: the call LoadRoot(lcfg), one action per step       *)
(***************************************************************************)
\* the state of the running call LoadRoot(lcfg)
LoadState == [pc |-> lpc, root |-> root, result |-> lresult, ops |-> ops]

\* the call moves to state s
LoadTo(s) ==
    /\ lpc' = s.pc
    /\ root' = s.root
    /\ lresult' = s.result
    /\ ops' = s.ops
    /\ UNCHANGED lcfg
    /\ UNCHANGED parseVars
    /\ UNCHANGED signerVars

LoadRequired ==
    lpc = "required" /\ \E s \in {StepRequired(lcfg, LoadState)} : LoadTo(s)

LoadSpec ==
    lpc = "spec" /\ \E s \in {StepSpec(lcfg, LoadState)} : LoadTo(s)

LoadFileRead ==
    lpc = "file.read" /\ \E s \in {StepFileRead(lcfg, LoadState)} : LoadTo(s)

LoadRoRead ==
    lpc = "ro.read" /\ \E s \in {StepRoRead(lcfg, LoadState)} : LoadTo(s)

LoadRoConnect ==
    lpc = "ro.connect" /\ \E s \in {StepRoConnect(lcfg, LoadState)} : LoadTo(s)

LoadRoDecrypt ==
    lpc = "ro.decrypt" /\ \E s \in {StepRoDecrypt(lcfg, LoadState)} : LoadTo(s)

LoadP11Read ==
    lpc = "p11.read" /\ \E s \in {StepP11Read(lcfg, LoadState)} : LoadTo(s)

LoadP11New ==
    lpc = "p11.new" /\ \E s \in {StepP11New(lcfg, LoadState)} : LoadTo(s)

LoadCertRead ==
    lpc = "cert.read" /\ \E s \in {StepCertRead(lcfg, LoadState)} : LoadTo(s)

LoadPolicy ==
    lpc = "policy" /\ \E s \in {StepPolicy(lcfg, LoadState)} : LoadTo(s)

LoadACL ==
    lpc = "acl" /\ \E s \in {StepACL(lcfg, LoadState)} : LoadTo(s)

LoadDB ==
    lpc = "db" /\ \E s \in {StepDB(lcfg, LoadState)} : LoadTo(s)

(***************************************************************************)
(* remote.Signer                                                           *)
(***************************************************************************)
\* the policies a Signer is given: config.Signing{Default, Profiles}
Policies ==
    { [nil |-> FALSE, Default |-> PlainProfile, Profiles |-> ("a" :> AuthProfile)],
      [nil |-> FALSE, Default |-> AuthProfile,  Profiles |-> ("b" :> BadProfile)],
      [nil |-> FALSE, Default |-> NilProfile,   Profiles |-> ("a" :> PlainProfile)] }

\* signer.Profile: the named profile, else the default one, else an error
Profile(pol, name) ==
    LET named == IF ~pol.nil /\ name # "" /\ name \in DOMAIN pol.Profiles
                 THEN pol.Profiles[name] ELSE NilProfile
        p     == IF named.nil /\ ~pol.nil THEN pol.Default ELSE named
    IN  IF p.nil THEN [err |-> "profile must not be nil", p |-> NilProfile]
        ELSE [err |-> "nil", p |-> p]

\* client.NewServerTLS: nil when the address is no URL
NewServerTLS(p) == IF p.RemoteServer = "" THEN "nil" ELSE "server"

\* json.Marshal(req)
Marshal(req) == IF req.marshalable THEN "nil" ELSE "json: unsupported type"

\* what the remote CA may answer to a sign call and to an info call
Responses(target) ==
    IF target = "info"
    THEN { [err |-> "nil", value |-> "info"],
           [err |-> "remote error", value |-> "nil"] }
    ELSE { [err |-> "nil", value |-> "certPEM"],
           [err |-> "nil", value |-> "garbage"],
           [err |-> "remote error", value |-> "nil"] }

\* Invocation i of Sign / Info returns (value, err)
Return(i, value, err) ==
    /\ sresult' = [sresult EXCEPT ![i] = [kind |-> "return", value |-> value, err |-> err]]
    /\ spc' = [spc EXCEPT ![i] = "done"]

\* Sign, line 48: an invocation starts, on a goroutine of its own, and enters
\* remoteOp(req, req.Profile, "sign"). The Signer holds no lock (lines 22-26):
\* invocations and setters interleave
SignCall ==
    /\ ncalls < MaxCalls
    /\ \E req \in [Profile : {"", "a", "b"}, Label : {"x", "y"}, marshalable : BOOLEAN] :
          call' = [call EXCEPT ![ncalls + 1] =
                      [op |-> "Sign", req |-> req, target |-> "sign", p |-> NilProfile,
                       cert |-> "nil", sent |-> 0,
                       resp |-> [err |-> "nil", value |-> "nil"],
                       dba |-> "unread", err |-> "nil",
                       inserts |-> 0, inserted |-> <<>>]]
    /\ spc' = [spc EXCEPT ![ncalls + 1] = "remoteOp"]
    /\ ncalls' = ncalls + 1
    /\ UNCHANGED <<policy, dbAccessor, reqModifier, sresult, outbound, certdb>>
    /\ UNCHANGED parseVars
    /\ UNCHANGED loadVars

\* Info, line 96
InfoCall ==
    /\ ncalls < MaxCalls
    /\ \E req \in [Profile : {"", "a", "b"}, Label : {"x"}, marshalable : BOOLEAN] :
          call' = [call EXCEPT ![ncalls + 1] =
                      [op |-> "Info", req |-> req, target |-> "info", p |-> NilProfile,
                       cert |-> "nil", sent |-> 0,
                       resp |-> [err |-> "nil", value |-> "nil"],
                       dba |-> "unread", err |-> "nil",
                       inserts |-> 0, inserted |-> <<>>]]
    /\ spc' = [spc EXCEPT ![ncalls + 1] = "remoteOp"]
    /\ ncalls' = ncalls + 1
    /\ UNCHANGED <<policy, dbAccessor, reqModifier, sresult, outbound, certdb>>
    /\ UNCHANGED parseVars
    /\ UNCHANGED loadVars

\* remoteOp, lines 108-124: marshal, resolve the profile in the policy the
\* Signer holds now, build the client. Sign and Info return remoteOp's error
\* as it is (lines 49-51, 97-99)
RemoteOpPrepare(i) ==
    /\ spc[i] = "remoteOp"
    /\ \E pr \in {Profile(policy, call[i].req.Profile)} :
          IF Marshal(call[i].req) # "nil"
          THEN Return(i, "nil", Marshal(call[i].req)) /\ UNCHANGED call
          ELSE IF pr.err # "nil"
          THEN Return(i, "nil", pr.err) /\ UNCHANGED call
          ELSE IF NewServerTLS(pr.p) = "nil"
          THEN Return(i, "nil", "failed to connect to remote") /\ UNCHANGED call
          ELSE /\ call' = [call EXCEPT ![i].p = pr.p]
               /\ spc' = [spc EXCEPT ![i] = "send"]
               /\ UNCHANGED sresult
    /\ UNCHANGED <<policy, dbAccessor, reqModifier, outbound, certdb, ncalls>>
    /\ UNCHANGED parseVars
    /\ UNCHANGED loadVars

\* C2, changed: the provider is used whenever the profile has one
RouteByProviderOnly(target, p) ==
    IF p.RemoteProvider # "nil"
    THEN [kind |-> "AuthSign", provider |-> p.RemoteProvider]
    ELSE IF target = "info" THEN [kind |-> "Info", provider |-> "nil"]
    ELSE [kind |-> "Sign", provider |-> "nil"]

\* remoteOp, lines 126-133: which call goes out
Route(target, p) ==
    IF target = "info" THEN [kind |-> "Info", provider |-> "nil"]
    ELSE IF p.RemoteProvider # "nil"
    THEN [kind |-> "AuthSign", provider |-> p.RemoteProvider]
    ELSE [kind |-> "Sign", provider |-> "nil"]

\* remoteOp, lines 126-133: the call of invocation i goes out, and the
\* invocation blocks until the remote answers
RemoteSend(i) ==
    /\ spc[i] = "send"
    /\ outbound' = Append(outbound, Route(call[i].target, call[i].p))
    /\ call' = [call EXCEPT ![i].sent = @ + 1]
    /\ spc' = [spc EXCEPT ![i] = "wait"]
    /\ UNCHANGED <<policy, dbAccessor, reqModifier, sresult, certdb, ncalls>>
    /\ UNCHANGED parseVars
    /\ UNCHANGED loadVars

\* C9, changed: a failed call is sent once more before its error is returned
AnsweredRetrying(i, r) ==
    IF r.err # "nil" /\ call[i].sent = 1
    THEN /\ call' = [call EXCEPT ![i].resp = r]
         /\ spc' = [spc EXCEPT ![i] = "send"]
         /\ UNCHANGED sresult
    ELSE IF r.err # "nil"
    THEN Return(i, "nil", r.err) /\ call' = [call EXCEPT ![i].resp = r]
    ELSE IF call[i].op = "Info"
    THEN Return(i, r.value, "nil") /\ call' = [call EXCEPT ![i].resp = r]
    ELSE /\ call' = [call EXCEPT ![i].resp = r, ![i].cert = r.value]
         /\ spc' = [spc EXCEPT ![i] = "record"]
         /\ UNCHANGED sresult

\* remoteOp, lines 135-139, on the remote's answer r: an error is returned
\* with no response; then Sign, lines 49-52, and Info, lines 97-103, return
\* that error, or the *info.Resp, or go on with the certificate bytes
Answered(i, r) ==
    IF r.err # "nil"
    THEN Return(i, "nil", r.err) /\ call' = [call EXCEPT ![i].resp = r]
    ELSE IF call[i].op = "Info"
    THEN Return(i, r.value, "nil") /\ call' = [call EXCEPT ![i].resp = r]
    ELSE /\ call' = [call EXCEPT ![i].resp = r, ![i].cert = r.value]
         /\ spc' = [spc EXCEPT ![i] = "record"]
         /\ UNCHANGED sresult

\* remoteOp, lines 128-132: server.Info, server.AuthSign or server.Sign of
\* invocation i comes back with the remote's answer
RemoteAnswer(i) ==
    /\ spc[i] = "wait"
    /\ \E r \in Responses(call[i].target) :
          Answered(i, r)
    /\ UNCHANGED <<policy, dbAccessor, reqModifier, outbound, certdb, ncalls>>
    /\ UNCHANGED parseVars
    /\ UNCHANGED loadVars

\* C1, changed: the record carries the profile name as its CA label
CertRecordMislabelled(req, cert, parsedCert) ==
    [Serial |-> parsedCert, CALabel |-> req.Profile, CAProfile |-> req.Profile,
     Status |-> "good", PEM |-> cert]

\* the certdb.CertificateRecord of lines 67-79; the fields read from parsedCert
\* are those of the parsed certificate
CertRecord(req, cert, parsedCert) ==
    [Serial |-> parsedCert, CALabel |-> req.Label, CAProfile |-> req.Profile,
     Status |-> "good", PEM |-> cert]

\* Sign, lines 58-79: parsedCert is nil when the bytes do not parse; the
\* accessor the Signer holds now is read (line 66), and parsedCert is
\* dereferenced (line 68) on the way to the database only
SignRecord(i) ==
    /\ spc[i] = "record"
    /\ \E parsed \in {ParseCertificatePEM(call[i].cert)} :
          IF Marshal(call[i].req) # "nil"
          THEN Return(i, "nil", Marshal(call[i].req)) /\ UNCHANGED call
          ELSE IF dbAccessor = "nil"
          THEN /\ Return(i, call[i].cert, "nil")
               /\ call' = [call EXCEPT ![i].dba = dbAccessor]
          ELSE IF parsed.cert = "nil"
          THEN /\ sresult' = [sresult EXCEPT ![i] =
                                 [kind |-> "panic", value |-> "nil", err |-> "nil"]]
               /\ spc' = [spc EXCEPT ![i] = "done"]
               /\ call' = [call EXCEPT ![i].dba = dbAccessor]
          ELSE /\ spc' = [spc EXCEPT ![i] = "insert"]
               /\ call' = [call EXCEPT ![i].dba = dbAccessor]
               /\ UNCHANGED sresult
    /\ UNCHANGED <<policy, dbAccessor, reqModifier, outbound, certdb, ncalls>>
    /\ UNCHANGED parseVars
    /\ UNCHANGED loadVars

\* Sign, line 81: the accessor is read again and InsertCertificate is called
\* on it; a nil one by now ends the invocation in a panic. The invocation
\* blocks until the database answers
SignInsert(i) ==
    /\ spc[i] = "insert"
    /\ IF dbAccessor = "nil"
       THEN /\ sresult' = [sresult EXCEPT ![i] =
                              [kind |-> "panic", value |-> "nil", err |-> "nil"]]
            /\ spc' = [spc EXCEPT ![i] = "done"]
       ELSE /\ spc' = [spc EXCEPT ![i] = "inserting"]
            /\ UNCHANGED sresult
    /\ UNCHANGED <<policy, dbAccessor, reqModifier, call, outbound, certdb, ncalls>>
    /\ UNCHANGED parseVars
    /\ UNCHANGED loadVars

\* Sign, line 81: InsertCertificate of invocation i comes back, the record
\* committed or the insert failed; err holds what it returned
InsertCertificate(i) ==
    /\ spc[i] = "inserting"
    /\ \E insertErr \in {"nil", "insert failed"} :
          LET rec == CertRecord(call[i].req, call[i].cert,
                                ParseCertificatePEM(call[i].cert).cert)
          IN  IF insertErr # "nil"
              THEN /\ call' = [call EXCEPT ![i].inserts = @ + 1, ![i].err = insertErr]
                   /\ UNCHANGED certdb
              ELSE /\ call' = [call EXCEPT ![i].inserts = @ + 1,
                                           ![i].inserted = Append(@, rec)]
                   /\ certdb' = Append(certdb, rec)
    /\ spc' = [spc EXCEPT ![i] = "inserted"]
    /\ UNCHANGED <<policy, dbAccessor, reqModifier, sresult, outbound, ncalls>>
    /\ UNCHANGED parseVars
    /\ UNCHANGED loadVars

\* Sign, lines 82-88: the insert's error is returned with no bytes, or the
\* certificate bytes are
SignReturn(i) ==
    /\ spc[i] = "inserted"
    /\ IF call[i].err # "nil"
       THEN Return(i, "nil", call[i].err)
       ELSE Return(i, call[i].cert, "nil")
    /\ UNCHANGED <<policy, dbAccessor, reqModifier, call, outbound, certdb, ncalls>>
    /\ UNCHANGED parseVars
    /\ UNCHANGED loadVars

\* SetPolicy, lines 149-151: at any time, whatever the invocations under way
SetPolicy ==
    /\ \E pol \in Policies \cup {NilPolicy} : policy' = pol
    /\ UNCHANGED <<dbAccessor, reqModifier, spc, call, sresult, outbound, certdb, ncalls>>
    /\ UNCHANGED parseVars
    /\ UNCHANGED loadVars

\* SetDBAccessor, lines 154-156
SetDBAccessor ==
    /\ \E dba \in {"nil", "db"} : dbAccessor' = dba
    /\ UNCHANGED <<policy, reqModifier, spc, call, sresult, outbound, certdb, ncalls>>
    /\ UNCHANGED parseVars
    /\ UNCHANGED loadVars

\* SetReqModifier, lines 164-166
SetReqModifier ==
    /\ \E mod \in {"nil", "modifier"} : reqModifier' = mod
    /\ UNCHANGED <<policy, dbAccessor, spc, call, sresult, outbound, certdb, ncalls>>
    /\ UNCHANGED parseVars
    /\ UNCHANGED loadVars

(***************************************************************************)
(* The inputs                                                              *)
(***************************************************************************)
\* the characters lines are drawn from, one of each class the patterns tell apart
LineChars == {" ", "#", "[", "]", "=", "\"", "'", "a", "A"}

\* every line of at most n characters
AllLines(n) == UNION {[1..k -> LineChars] : k \in 0..n}

\* the lines of the files given to ParseToRawMap
ScanLines ==
    { <<"[","a","]">>,
      <<"[","d","e","f","a","u","l","t","]">>,
      <<" ","["," ","a"," ","]"," ">>,
      <<"A","=","b">>,
      <<"a"," ","="," ","'","c","'">>,
      <<"b","=","c">>,
      <<"#"," ","a","=","b">>,
      <<>>,
      <<"a"," ","b">> }

\* the lines of the files given to Parse
RootLines ==
    { <<"[","a","]">>,
      <<"p","r","i","v","a","t","e","=","f","i","l","e",":","/","/","k">>,
      <<"c","e","r","t","i","f","i","c","a","t","e","=","g">>,
      <<"c","o","n","f","i","g","=","p">>,
      <<"p","r","i","v","a","t","e","=","p","k","c","s","1","1",":">>,
      <<"c","e","r","t","i","f","i","c","a","t","e","=","n">>,
      <<"m","o","d","u","l","e","=","l">>,
      <<"t","o","k","e","n","_","l","a","b","e","l","=","t">>,
      <<"c","o","n","f","i","g">> }

\* a key left out, or given one of vals
Opt(k, vals) == {EmptyMap} \cup {k :> v : v \in vals}

\* the key specifiers: file://k, file://r, file://m, file://g, FILE://k,
\* file://k/ and "file://k " with a blank at its end; rofile://e, ssh://h and ":"
FileSpecs ==
    { <<"f","i","l","e",":","/","/","k">>, <<"f","i","l","e",":","/","/","r">>,
      <<"f","i","l","e",":","/","/","m">>, <<"f","i","l","e",":","/","/","g">>,
      <<"F","I","L","E",":","/","/","k">>, <<"f","i","l","e",":","/","/","k","/">>,
      <<"f","i","l","e",":","/","/","k"," ">> }
OtherSpecs == { <<"s","s","h",":","/","/","h">>, <<":">> }
specPkcs11 == <<"p","k","c","s","1","1",":">>
specRofile == <<"r","o","f","i","l","e",":","/","/","e">>

\* the sections given to LoadRoot: the keys a scheme reads are varied for that
\* scheme only
PrivateInputs ==
    {EmptyMap}
    \cup {kPrivate :> v : v \in FileSpecs \cup OtherSpecs}
    \cup {(kPrivate :> specPkcs11) @@ m @@ l @@ n :
            m \in Opt(kModule, {<<"l">>, <<"x">>}),
            l \in Opt(kTokenLabel, {<<"t">>}),
            n \in Opt(kPin, {<<"1">>})}
    \cup {(kPrivate :> specRofile) @@ sv @@ ca @@ u @@ w :
            sv \in Opt(kRoServer, {<<"s">>, <<"x">>}),
            ca \in Opt(kRoCA, {<<"m">>}),
            u \in Opt(kRoUser, {<<"u">>}),
            w \in Opt(kRoPass, {<<"w">>})}

RootInputs ==
    {p @@ c @@ f @@ n @@ d :
        p \in PrivateInputs,
        c \in Opt(kCertificate, {<<>>, <<"g">>, <<"d">>, <<"n">>, <<"m">>}),
        f \in Opt(kConfig, {<<"p">>, <<"m">>}),
        \* "10.0.0.0/8, 1.2.3.4/32", "10.0.0.0/8,x" and "fe80::/10,::1/128\n"
        n \in Opt(kNets, {<<"1","0",".","0",".","0",".","0","/","8",","," ","1",".","2",".","3",".","4","/","3","2">>,
                          <<"1","0",".","0",".","0",".","0","/","8",",","x">>,
                          <<"f","e","8","0",":",":","/","1","0",",",":",":","1","/","1","2","8","\n">>}),
        d \in Opt(kDBConfig, {<<"q">>, <<"m">>})}

(***************************************************************************)
(* The specifications                                                      *)
(***************************************************************************)
\* ParseToRawMap on a file of one line, the line drawn character by character
ScanAnyLine == Len(file) = 0 /\ \E line \in AllLines(MaxLen) : Scan(line)

NextLine == Open \/ ScanAnyLine \/ ScanEOF

SpecLine == InitConfig /\ [][NextLine]_vars

\* ParseToRawMap on files of several lines
ScanLine == Len(file) < MaxLines /\ \E line \in ScanLines : Scan(line)

NextScan == Open \/ OpenFail \/ ScanLine \/ ScanEOF

SpecScan == InitConfig /\ [][NextScan]_vars

\* Parse: ParseToRawMap, then LoadRoot on every section
ScanRootLine == Len(file) < MaxRootLines /\ \E line \in RootLines : Scan(line)

NextParse ==
    Open \/ OpenFail \/ ScanRootLine \/ ScanEOF \/ ParseCheck \/ ParseLoad \/ ParseReturn

SpecParse == InitConfig /\ [][NextParse]_vars

\* LoadRoot on one section
InitLoad ==
    /\ file = <<>>
    /\ cfg = EmptyMap
    /\ currentSection = <<>>
    /\ scanErr = "nil"
    /\ ppc = "idle"
    /\ rootList = EmptyMap
    /\ parseResult = NoParseResult
    /\ lcfg \in RootInputs
    /\ lpc = LoadStart.pc
    /\ root = LoadStart.root
    /\ lresult = LoadStart.result
    /\ ops = LoadStart.ops
    /\ policy = NilPolicy
    /\ dbAccessor = "nil"
    /\ reqModifier = "nil"
    /\ spc = [i \in 1..MaxCalls |-> "idle"]
    /\ call = [i \in 1..MaxCalls |-> NoCall]
    /\ sresult = [i \in 1..MaxCalls |-> NoSignResult]
    /\ outbound = <<>>
    /\ certdb = <<>>
    /\ ncalls = 0

NextLoad ==
    \/ LoadRequired \/ LoadSpec
    \/ LoadFileRead
    \/ LoadRoRead \/ LoadRoConnect \/ LoadRoDecrypt
    \/ LoadP11Read \/ LoadP11New
    \/ LoadCertRead \/ LoadPolicy \/ LoadACL \/ LoadDB

SpecLoad == InitLoad /\ [][NextLoad]_vars

\* a Signer made by NewSigner(policy) from a valid policy
InitSigner ==
    /\ file = <<>>
    /\ cfg = EmptyMap
    /\ currentSection = <<>>
    /\ scanErr = "nil"
    /\ ppc = "idle"
    /\ rootList = EmptyMap
    /\ parseResult = NoParseResult
    /\ lcfg = EmptyMap
    /\ lpc = "idle"
    /\ root = NilRoot
    /\ lresult = NoResult
    /\ ops = <<>>
    /\ policy \in Policies
    /\ dbAccessor = "nil"
    /\ reqModifier = "nil"
    /\ spc = [i \in 1..MaxCalls |-> "idle"]
    /\ call = [i \in 1..MaxCalls |-> NoCall]
    /\ sresult = [i \in 1..MaxCalls |-> NoSignResult]
    /\ outbound = <<>>
    /\ certdb = <<>>
    /\ ncalls = 0

NextSigner ==
    \/ SignCall
    \/ InfoCall
    \/ \E i \in 1..MaxCalls : RemoteOpPrepare(i)
    \/ \E i \in 1..MaxCalls : RemoteSend(i)
    \/ \E i \in 1..MaxCalls : RemoteAnswer(i)
    \/ \E i \in 1..MaxCalls : SignRecord(i)
    \/ \E i \in 1..MaxCalls : SignInsert(i)
    \/ \E i \in 1..MaxCalls : InsertCertificate(i)
    \/ \E i \in 1..MaxCalls : SignReturn(i)
    \/ SetPolicy
    \/ SetDBAccessor
    \/ SetReqModifier

SpecSigner == InitSigner /\ [][NextSigner]_vars

(***************************************************************************)
(* What a file says, read off its lines without running the parser         *)
(***************************************************************************)
IsComment(line) == commentLine(line)
IsBlank(line)   == ~IsComment(line) /\ blankLine(line)
IsHeader(line)  == ~IsComment(line) /\ ~blankLine(line) /\ configSection(line).ok
IsKeyValue(line) ==
    ~IsComment(line) /\ ~blankLine(line) /\ ~configSection(line).ok /\ configLine(line).ok
IsMalformed(line) ==
    ~IsComment(line) /\ ~blankLine(line) /\ ~configSection(line).ok /\ ~configLine(line).ok

\* the section line i of f belongs to: that of the nearest header above it,
\* `default` when there is none
SectionOf(f, i) ==
    LET heads == {j \in 1..(i - 1) : IsHeader(f[j])}
    IN  IF heads = {} THEN defaultSection ELSE configSection(f[Max(heads)]).g1

KeyOf(line) == configLine(line).g1

\* the key/value lines of f that give key k in section sec
Givers(f, sec, k) ==
    {i \in 1..Len(f) : IsKeyValue(f[i]) /\ SectionOf(f, i) = sec /\ KeyOf(f[i]) = k}

\* the sections f names: its headers, and `default` for a key/value line above
\* every header
SectionsOf(f) ==
    {configSection(f[j]).g1 : j \in {i \in 1..Len(f) : IsHeader(f[i])}}
    \cup {SectionOf(f, i) : i \in {j \in 1..Len(f) : IsKeyValue(f[j])}}

\* C5: whatever the lines scanned so far, the RawMap holds exactly the sections
\* the file names, and each section holds exactly the keys given under its
\* name anywhere in the file (under `default` for the lines above every
\* header), each once, none lost when its header comes again
C5_SectionsMerge ==
    /\ DOMAIN cfg = SectionsOf(file)
    /\ \A i \in 1..Len(file) :
          IsKeyValue(file[i]) => KeyOf(file[i]) \in DOMAIN cfg[SectionOf(file, i)]
    /\ \A sec \in DOMAIN cfg : \A k \in DOMAIN cfg[sec] : Givers(file, sec, k) # {}

\* a key above every header, then another section, then `[default]` again
\* with a second key: both keys sit in the one `default` section
C5_Witness ==
    /\ Len(file) = 4
    /\ IsKeyValue(file[1])
    /\ IsHeader(file[2]) /\ configSection(file[2]).g1 # defaultSection
    /\ IsHeader(file[3]) /\ configSection(file[3]).g1 = defaultSection
    /\ IsKeyValue(file[4]) /\ KeyOf(file[4]) # KeyOf(file[1])
    /\ DOMAIN cfg[defaultSection] = {KeyOf(file[1]), KeyOf(file[4])}

\* the first character of the line that is no whitespace is '#'
StartsWithHashAfterTrim(line) ==
    SkipSpace(line, 1) <= Len(line) /\ line[SkipSpace(line, 1)] = "#"

\* C6: a line whose first non-whitespace character is '#' is a comment: it is
\* skipped, adds no section and no key, and does not make the parse fail, be
\* the rest of it a header or a key/value pair
C6_TrimmedCommentSkipped ==
    (Len(file) = 1 /\ StartsWithHashAfterTrim(file[1]))
        => (scanErr = "nil" /\ cfg = EmptyMap /\ currentSection = <<>>)

\* the value of a key/value line: the text after '=' and the whitespace
\* behind it
RawValue(line) == configLine(line).g2

\* the value, its trailing whitespace aside, is wrapped in two equal quotes
WrappedInMatchingQuotes(v) ==
    LET e == LastNonSpace(v)
    IN  e >= 2 /\ v[1] \in {"\"", "'"} /\ v[e] = v[1]

\* C7: the value of a key/value line is stored without its quotes when it is
\* wrapped in a matching pair of quotes, and verbatim in every other case
C7_QuotesStrippedOnlyWhenMatching ==
    (Len(file) = 1 /\ IsKeyValue(file[1]))
        => /\ scanErr = "nil"
           /\ cfg[defaultSection][KeyOf(file[1])] =
                 IF WrappedInMatchingQuotes(RawValue(file[1]))
                 THEN SubSeq(RawValue(file[1]), 2, LastNonSpace(RawValue(file[1])) - 1)
                 ELSE RawValue(file[1])

\* LoadRoot(c) returned a Root and no error
Loads(c) == LoadRoot(c).result.kind = "return" /\ LoadRoot(c).result.err = "nil"

\* C3: once Parse is over it has returned; it returned a RootList, with one
\* Root per section of the file, when the file was opened, holds no malformed
\* line and every section loads; and an error with no RootList in every
\* other case
C3_ParseAllOrNothing ==
    ppc = "done" =>
        /\ parseResult.kind = "return"
        /\ IF /\ scanErr # "open: no such file or directory"
              /\ \A i \in 1..Len(file) : ~IsMalformed(file[i])
              /\ \A sec \in DOMAIN cfg : Loads(cfg[sec])
           THEN /\ parseResult.err = "nil"
                /\ ~parseResult.list.nil
                /\ DOMAIN parseResult.list.roots = SectionsOf(file)
                /\ \A sec \in SectionsOf(file) :
                      parseResult.list.roots[sec] = LoadRoot(cfg[sec]).result.root
           ELSE /\ parseResult.err # "nil"
                /\ parseResult.list.nil

\* where an entry of ops belongs in LoadRoot's order of steps
Stage(op) ==
    CASE op[1] = "LoadFile" -> 3
      [] op[1] = "parseACL" -> 4
      [] op[1] = "DBFromConfig" -> 5
      [] OTHER -> 1      \* parsePrivateKeySpec, or the certificate file (2)

\* C4: LoadRoot ends by returning. A missing `private`, `certificate` or
\* `config` gives its own error with nothing touched; the steps that touch
\* files and backends come in the order signing capability, certificate,
\* policy, ACL, database; an error comes with no Root, and a Root comes with
\* every applicable field set
C4_LoadRootPipeline ==
    lpc = "done" =>
        /\ lresult.kind = "return"
        /\ kPrivate \notin DOMAIN lcfg
              => (lresult.err = ErrMissingPrivateKey /\ ops = <<>>)
        /\ (kPrivate \in DOMAIN lcfg /\ kCertificate \notin DOMAIN lcfg)
              => (lresult.err = ErrMissingCertificatePath /\ ops = <<>>)
        /\ ({kPrivate, kCertificate} \subseteq DOMAIN lcfg /\ kConfig \notin DOMAIN lcfg)
              => (lresult.err = ErrMissingConfigPath /\ ops = <<>>)
        /\ \A i \in 1..Len(ops) : \A j \in i..Len(ops) : Stage(ops[i]) <= Stage(ops[j])
        /\ lresult.err # "nil" => lresult.root.nil
        /\ lresult.err = "nil" =>
              /\ ~lresult.root.nil
              /\ lresult.root.PrivateKey # "nil"
              /\ lresult.root.Certificate # "nil"
              /\ lresult.root.Config # "nil"
              /\ lresult.root.ACL.nil <=> MapGet(lcfg, kNets) = <<>>
              /\ lresult.root.DB = "nil" <=> MapGet(lcfg, kDBConfig) = <<>>
              /\ \E i \in 1..Len(ops) : ops[i] = <<"LoadFile", lcfg[kConfig]>>

\* the call resolves a pkcs11 key specifier
IsPkcs11Call ==
    /\ {kPrivate, kCertificate, kConfig} \subseteq DOMAIN lcfg
    /\ urlParse(lcfg[kPrivate]).err = "nil"
    /\ urlParse(lcfg[kPrivate]).Scheme = schemePkcs11

SessionOpened == \E i \in 1..Len(ops) : ops[i][1] = "pkcs11key.New"

\* C8: resolving a pkcs11 specifier ends by returning. A missing `module`,
\* `token_label` or `certificate` gives its own error, an unreadable
\* certificate file or one that is no PEM certificate gives an error, and in
\* these cases no session is opened; with the three present and the
\* certificate parsed the session is opened, with or without a `pin`
C8_Pkcs11Resolve ==
    (lpc = "done" /\ IsPkcs11Call) =>
        LET module == MapGet(lcfg, kModule)
            label  == MapGet(lcfg, kTokenLabel)
            cert   == MapGet(lcfg, kCertificate)
            certOK == FileKind(cert) = "certPEM"
        IN  /\ lresult.kind = "return"
            /\ module = <<>> => (lresult.err = ErrNoModule /\ ~SessionOpened)
            /\ (module # <<>> /\ label = <<>>)
                  => (lresult.err = ErrNoTokenLabel /\ ~SessionOpened)
            /\ (module # <<>> /\ label # <<>> /\ cert = <<>>)
                  => (lresult.err = ErrNoP11Cert /\ ~SessionOpened)
            /\ (module # <<>> /\ label # <<>> /\ cert # <<>> /\ ~certOK)
                  => (lresult.err # "nil" /\ ~SessionOpened)
            /\ (module # <<>> /\ label # <<>> /\ cert # <<>> /\ certOK)
                  => SessionOpened

\* C1: an invocation of Sign that found a persistence handle set (line 66)
\* returns certificate bytes only when exactly one record of its own, of
\* status "good" and with the request's label and profile, for the bytes the
\* remote returned, was committed after the remote's answer; when its insert
\* failed it returns an error and no bytes; no insert is attempted for an
\* invocation whose remote call failed or that found no handle, and the one
\* that found no handle returns the remote's bytes; every change of the
\* records is the commit of one such record, and committed records stay
C1_SignPersists ==
    [][ /\ certdb' # certdb =>
              \E j \in 1..MaxCalls :
                  /\ call[j].op = "Sign" /\ call[j].sent = 1
                  /\ call[j].resp.err = "nil" /\ call[j].resp.value # "nil"
                  /\ call[j].inserts = 0
                  /\ call'[j].inserted = <<certdb'[Len(certdb')]>>
                  /\ certdb' = Append(certdb, call'[j].inserted[1])
        /\ \A i \in 1..MaxCalls :
              /\ call'[i].inserts <= 1
              /\ Len(call'[i].inserted) <= call'[i].inserts
              /\ call'[i].inserts > 0 =>
                    /\ call'[i].op = "Sign" /\ call'[i].sent = 1
                    /\ call'[i].resp.err = "nil"
                    /\ call'[i].dba = "db"
              /\ \A k \in 1..Len(call'[i].inserted) :
                    /\ \E n \in 1..Len(certdb') : certdb'[n] = call'[i].inserted[k]
                    /\ call'[i].inserted[k].Status = "good"
                    /\ call'[i].inserted[k].CALabel = call'[i].req.Label
                    /\ call'[i].inserted[k].CAProfile = call'[i].req.Profile
                    /\ call'[i].inserted[k].PEM = call'[i].resp.value
              /\ (spc'[i] = "done" /\ call'[i].op = "Sign") =>
                    /\ sresult'[i].value # "nil" =>
                          /\ sresult'[i].kind = "return"
                          /\ sresult'[i].err = "nil"
                          /\ call'[i].resp.err = "nil"
                          /\ sresult'[i].value = call'[i].resp.value
                    /\ (sresult'[i].value # "nil" /\ call'[i].dba = "db") =>
                          /\ call'[i].inserts = 1
                          /\ Len(call'[i].inserted) = 1
                    /\ (call'[i].inserts = 1 /\ call'[i].inserted = <<>>) =>
                          /\ sresult'[i].err # "nil"
                          /\ sresult'[i].value = "nil"
                    /\ call'[i].dba = "nil" =>
                          /\ call'[i].inserts = 0
                          /\ sresult'[i] = [kind |-> "return",
                                            value |-> call'[i].resp.value, err |-> "nil"]
      ]_vars

\* two invocations of Sign inside InsertCertificate together: the record of
\* the second was committed first and its Sign has not returned yet, the
\* first has returned its bytes, and the accessor was set to nil meanwhile
C1_Witness ==
    /\ spc[1] = "done" /\ spc[2] = "inserted"
    /\ call[1].op = "Sign" /\ call[2].op = "Sign"
    /\ sresult[1] = [kind |-> "return", value |-> "certPEM", err |-> "nil"]
    /\ call[1].req.Label # call[2].req.Label
    /\ Len(call[1].inserted) = 1 /\ Len(call[2].inserted) = 1
    /\ certdb = <<call[2].inserted[1], call[1].inserted[1]>>
    /\ dbAccessor = "nil"

\* C2: the call that goes out for Info is the plain info call, with no
\* provider, whatever the resolved profile holds; the call that goes out for
\* Sign is the authenticated one, with the profile's provider, exactly when
\* the resolved profile has a provider, and the plain sign call otherwise
C2_Routing ==
    [][ /\ outbound' # outbound =>
              \E j \in 1..MaxCalls : spc[j] = "send" /\ spc'[j] = "wait"
        /\ \A i \in 1..MaxCalls :
              (spc[i] = "send" /\ spc'[i] = "wait") =>
                 LET sent == outbound'[Len(outbound')]
                     p    == call[i].p
                 IN  /\ outbound' = Append(outbound, sent)
                     /\ call[i].op = "Info" => sent = [kind |-> "Info", provider |-> "nil"]
                     /\ (call[i].op = "Sign" /\ p.RemoteProvider # "nil")
                           => sent = [kind |-> "AuthSign", provider |-> p.RemoteProvider]
                     /\ (call[i].op = "Sign" /\ p.RemoteProvider = "nil")
                           => sent = [kind |-> "Sign", provider |-> "nil"]
      ]_vars

\* an Info call on a profile that has a provider went out plain, while the
\* earlier invocation is still waiting for the remote
C2_Witness ==
    /\ ncalls >= 2
    /\ spc[1] = "wait"
    /\ call[ncalls].op = "Info" /\ call[ncalls].sent = 1
    /\ call[ncalls].p.RemoteProvider # "nil"
    /\ outbound[Len(outbound)] = [kind |-> "Info", provider |-> "nil"]

\* remoteOp of invocation i stops before the outbound call: lines 108-122
PrepareFails(i) ==
    \/ Marshal(call[i].req) # "nil"
    \/ Profile(policy, call[i].req.Profile).err # "nil"
    \/ NewServerTLS(Profile(policy, call[i].req.Profile).p) = "nil"

\* C9: an invocation sends at most one call. When marshalling, profile
\* resolution or the construction of the client fails the invocation ends
\* there with an error and nothing sent; when the call that was sent fails,
\* the invocation ends there with the remote's error as it came
C9_OneCallNoRetry ==
    [][ /\ Len(outbound') <= ncalls'
        /\ \A i \in 1..MaxCalls :
              /\ call'[i].sent <= 1
              /\ (spc[i] = "remoteOp" /\ spc'[i] # "remoteOp" /\ PrepareFails(i)) =>
                    /\ spc'[i] = "done"
                    /\ outbound' = outbound
                    /\ call'[i].sent = 0
                    /\ sresult'[i].kind = "return"
                    /\ sresult'[i].err # "nil"
                    /\ sresult'[i].value = "nil"
              /\ (spc[i] = "wait" /\ spc'[i] # "wait" /\ call'[i].resp.err # "nil") =>
                    /\ spc'[i] = "done"
                    /\ outbound' = outbound
                    /\ sresult'[i] = [kind |-> "return", value |-> "nil",
                                      err |-> call'[i].resp.err]
              /\ (spc[i] = "send" /\ spc'[i] # "send") =>
                    /\ Len(outbound') = Len(outbound) + 1
                    /\ call'[i].sent = call[i].sent + 1
      ]_vars

\* an invocation whose one call failed at the remote and returned that error,
\* while another one is still waiting for its answer
C9_Witness ==
    \E i, j \in 1..MaxCalls :
        /\ spc[i] = "done" /\ call[i].sent = 1
        /\ call[i].resp.err = "remote error"
        /\ sresult[i] = [kind |-> "return", value |-> "nil", err |-> "remote error"]
        /\ spc[j] = "wait"
        /\ Len(outbound) = ncalls

\* C10: an invocation of Sign whose remote call succeeded with bytes that are
\* no PEM certificate ends by returning: the bytes, or the insert's error
\* when the insert fails
C10_UnparsedCertProceeds ==
    \A i \in 1..MaxCalls :
        (/\ spc[i] = "done" /\ call[i].op = "Sign"
         /\ call[i].resp.err = "nil" /\ call[i].sent = 1
         /\ ParseCertificatePEM(call[i].cert).err # "nil")
            => /\ sresult[i].kind = "return"
               /\ \/ sresult[i].value = call[i].cert /\ sresult[i].err = "nil"
                  \/ sresult[i].value = "nil" /\ sresult[i].err = "insert failed"

====
